---- MODULE Spec2Model ----
(***************************************************************************)
(* glraster: main() of src/src/main.c as a state machine.                  *)
(*                                                                         *)
(* main.c is the controller: option parsing, platform start-up, the frame  *)
(* loop and the shutdown sequence.  The file reader (file_reader.h) and    *)
(* the raster display (display.h) are called by main.c but their bodies    *)
(* are not among the sources; their operations are modelled from the       *)
(* design document (sections 3, 4.1, 4.2) and are marked as such below.    *)
(***************************************************************************)
EXTENDS Integers, Sequences, FiniteSets, TLC

VARIABLES
    pc,             \* position of main()
    args,           \* the command-line options getopt_long has not yet returned
    opt,            \* main.c:98   what getopt_long returned last
    file_path,      \* main.c:91   ""  or the class of the path given to --file
    buffer_size,    \* main.c:93   the requested buffer size
    glfw,           \* the GLFW library: "uninit" | "init" | "terminated"
    window,         \* main.c:85   "NULL" | "created" | "destroyed"
    nk,             \* the Nuklear context: "none" | "init" | "shutdown"
    win_size,       \* the size of the window on screen, <<w, h>> (set by the platform)
    should_close,   \* the window's close flag (glfwWindowShouldClose)
    window_w,       \* main.c:82
    window_h,       \* main.c:83
    interrupt_flag, \* main.c:44
    file,           \* the file on disk behind a good path: [size, seed]
    reader,         \* main.c:88   struct file_reader
    display,        \* main.c:87   struct raster_display
    output,         \* the messages written to stdout and stderr, in order
    exit_status,    \* "running" | "EXIT_SUCCESS" | "EXIT_FAILURE" | "SIGABRT" | "SIGSEGV"
    frames,         \* the number of frames begun
    tick_obs,       \* what the most recent file_reader_tick call did
    io,             \* read counters of the run
    obs             \* what the current frame has done so far, and the calls of the shutdown

vars == << pc, args, opt, file_path, buffer_size, glfw, window, nk, win_size,
           should_close, window_w, window_h, interrupt_flag, file, reader,
           display, output, exit_status, frames, tick_obs, io, obs >>

-----------------------------------------------------------------------------
(* Bounds of the model *)

MaxArgs == 2
MaxFrames == 3
MaxFileSize == 3

(* Program constants *)

DEFAULT_BUFFER_SIZE == 512

-----------------------------------------------------------------------------
(* The inputs *)

\* strtol(optarg, NULL, 10) of main.c:111 for arguments without leading blanks
\* and within the range of long: an optional sign, then the longest run of
\* digits; 0 when there is none
DigitChars == <<"0", "1", "2", "3", "4", "5", "6", "7", "8", "9">>

IsDigit(c) == \E d \in 1 .. 10 : DigitChars[d] = c

DigitValue(c) == (CHOOSE d \in 1 .. 10 : DigitChars[d] = c) - 1

RECURSIVE StrtolDigits(_, _)
StrtolDigits(s, acc) ==
    IF s = << >> \/ ~IsDigit(Head(s)) THEN acc
    ELSE StrtolDigits(Tail(s), 10 * acc + DigitValue(Head(s)))

strtol(s) ==
    IF s # << >> /\ Head(s) = "-" THEN 0 - StrtolDigits(Tail(s), 0)
    ELSE IF s # << >> /\ Head(s) = "+" THEN StrtolDigits(Tail(s), 0)
    ELSE StrtolDigits(s, 0)

\* the decimal text of a number n >= 0
RECURSIVE Decimal(_)
Decimal(n) ==
    IF n < 10 THEN <<DigitChars[n + 1]>>
    ELSE Append(Decimal(n \div 10), DigitChars[(n % 10) + 1])

\* --size arguments, character by character: negative, not a number, below
\* and above the sizes of the small files
SizeArgs == {<<"-", "1">>, <<"x">>, <<"2">>, Decimal(MaxFileSize + 2)}

\* the classes of path a --file argument can name
PathArgs == {"", "good", "missing", "unreadable"}

\* One element of argv as getopt_long sees it.
\*   "f", "s", "h"  the options of option_list (short or exact long form)
\*   "bad"          an unknown short option, or an option missing its argument
\*   "badlong"      a long option that no entry of option_list matches exactly
ArgTokens ==
    [opt : {"f"}, arg : PathArgs] \cup
    [opt : {"s"}, arg : SizeArgs] \cup
    [opt : {"h", "bad", "badlong"}, arg : {0}]

RECURSIVE SeqsUpTo(_, _)
SeqsUpTo(S, n) ==
    IF n = 0 THEN {<< >>}
    ELSE LET shorter == SeqsUpTo(S, n - 1)
         IN  shorter \cup {Append(s, x) : s \in {t \in shorter : Len(t) = n - 1}, x \in S}

ArgVectors == SeqsUpTo(ArgTokens, MaxArgs)

\* the files a good path can name: a size and the bytes, given by a seed
FileSizes == 0 .. MaxFileSize
FileSeeds == {3, 250}
Files == [size : FileSizes, seed : FileSeeds]

FileByte(f, pos) == (f.seed + 7 * pos) % 256

\* the sizes the platform can give the window; <<0, 0>> is a minimised window
WinSizes == {<<2, 2>>, <<1, 2>>, <<0, 0>>}

\* the offsets the dialog can leave in display->file_offset
OffsetInputs == {-1, 0, 1, 100}

\* what a read outside an object may return
JunkBytes == {0, 171}

-----------------------------------------------------------------------------
(* The file reader (file_reader.h), from the design document, section 4.1 *)

NullReader ==
    [alloc |-> "NULL", file_size |-> 0, buffer_size |-> 0, buffer |-> << >>,
     window_offset |-> 0, valid_length |-> 0]

Min(a, b) == IF a < b THEN a ELSE b
Max(a, b) == IF a > b THEN a ELSE b

\* Clamp without its upper limit
ClampLowOnly(v, lo, hi) == IF v < lo THEN lo ELSE v

\* clamp(v, lo, hi), and lo when the range is empty
Clamp(v, lo, hi) ==
    IF hi < lo THEN lo
    ELSE IF v < lo THEN lo
    ELSE IF v > hi THEN hi
    ELSE v

\* the bytes of f at positions off .. off + n - 1, cut at the end of the file
ReadAt(f, off, n) ==
    [i \in 1 .. Max(0, Min(n, f.size - off)) |-> FileByte(f, off + i - 1)]

\* EffectiveRequest without the default: the request is taken as it is
EffectiveRequestAsGiven(req) == req

\* a zero or negative request is treated as the default size
EffectiveRequest(req) == IF req <= 0 THEN DEFAULT_BUFFER_SIZE ELSE req

\* open(path, requested_buffer_size) on a file that can be opened
file_reader_init(f, req) ==
    LET cap == Min(EffectiveRequest(req), f.size)
        buf == ReadAt(f, 0, cap)
    IN  [alloc |-> "live", file_size |-> f.size, buffer_size |-> cap,
         buffer |-> buf, window_offset |-> 0, valid_length |-> Len(buf)]

\* the target of tick(desired_offset)
TickTarget(r, o) == Clamp(o, 0, r.file_size - r.buffer_size)

\* TickNeedsRead without the comparison: every tick reads
TickAlwaysReads(r, o) == TRUE

\* tick(desired_offset) is a no-op, without I/O, when the target is the window's offset
TickNeedsRead(r, o) == TickTarget(r, o) # r.window_offset

\* TickRead without the seek: the bytes come from where the cursor was left
TickReadNoSeek(r, f, o) ==
    LET target == TickTarget(r, o)
        buf == ReadAt(f, r.window_offset + r.valid_length, r.buffer_size)
    IN  [r EXCEPT !.buffer = buf, !.window_offset = target, !.valid_length = Len(buf)]

\* tick(desired_offset) whose read succeeds (called only when target # window_offset)
TickRead(r, f, o) ==
    LET target == TickTarget(r, o)
        buf == ReadAt(f, target, r.buffer_size)
    IN  [r EXCEPT !.buffer = buf, !.window_offset = target, !.valid_length = Len(buf)]

\* tick(desired_offset) whose read fails: the window does not change
TickFailed(r, f, o) == r

\* close()
file_reader_free(r) ==
    [r EXCEPT !.alloc = "freed", !.buffer = << >>, !.valid_length = 0]

-----------------------------------------------------------------------------
(* The raster display (display.h), from the design document, section 4.2 *)

background_color == [r |-> 0, g |-> 0, b |-> 0]

\* the byte-to-colour policy: grey, linear in the byte value
Policy(byte) == [r |-> byte, g |-> byte, b |-> byte]

NullDisplay ==
    [alloc |-> "NULL", w |-> 0, h |-> 0, file_size |-> 0, buffer_size |-> 0,
     file_offset |-> 0, pixel_grid |-> << >>]

raster_display_init(w, h, fsize, bsize) ==
    [alloc |-> "live", w |-> w, h |-> h, file_size |-> fsize, buffer_size |-> bsize,
     file_offset |-> 0, pixel_grid |-> [i \in 1 .. w * h |-> background_color]]

GridCapacity(d) == IF d.w > 0 /\ d.h > 0 THEN d.w * d.h ELSE 0

\* draw(buffer, valid_length): the length is the one the display was given at
\* init, main() passes only the buffer.  A byte read past the end of buf is junk.
raster_display_draw(d, buf, junk) ==
    [d EXCEPT !.pixel_grid =
        [i \in 1 .. GridCapacity(d) |->
            IF i <= d.buffer_size
            THEN Policy(IF i <= Len(buf) THEN buf[i] ELSE junk)
            ELSE background_color]]

raster_display_free(d) == [d EXCEPT !.alloc = "freed", !.pixel_grid = << >>]

-----------------------------------------------------------------------------
(* The initial state: main() entered, the SIGINT handler installed (main.c:71) *)

NoTick == [done |-> FALSE, o |-> 0, pre |-> NullReader, read |-> FALSE, failed |-> FALSE]

\* no frame begun, nothing polled, nothing freed
NoFrame ==
    [steps |-> << >>, dialog_o |-> 0, tick_o |-> 0, tick_buf |-> << >>,
     draw_buf |-> << >>, polls |-> 0, seen |-> FALSE, frees |-> 0]

\* the step of the frame that has just been done
Done(step) == [obs EXCEPT !.steps = Append(@, step)]

Init ==
    /\ pc = "getopt"
    /\ args \in ArgVectors
    /\ opt = "none"
    /\ file_path = ""
    /\ buffer_size = DEFAULT_BUFFER_SIZE
    /\ glfw = "uninit"
    /\ window = "NULL"
    /\ nk = "none"
    /\ win_size = <<0, 0>>
    /\ should_close = FALSE
    /\ window_w = 0
    /\ window_h = 0
    /\ interrupt_flag = 0
    /\ file \in Files
    /\ reader = NullReader
    /\ display = NullDisplay
    /\ output = << >>
    /\ exit_status = "running"
    /\ frames = 0
    /\ tick_obs = NoTick
    /\ io = [reads |-> 0, ok_reads |-> 0, changed |-> 0, prev_o |-> 0]
    /\ obs = NoFrame

\* a return from main() or the death of the process
Exit(status, msgs) ==
    /\ pc' = "exited"
    /\ exit_status' = status
    /\ output' = output \o msgs

Goto(next, msgs) ==
    /\ pc' = next
    /\ output' = output \o msgs
    /\ UNCHANGED exit_status

-----------------------------------------------------------------------------
(* Option parsing, main.c:95-118 *)

\* getopt_long returns -1: the loop is left, main.c:100-103
GetoptEnd ==
    /\ pc = "getopt"
    /\ args = << >>
    /\ opt' = "-1"
    /\ Goto("check_file", << >>)
    /\ UNCHANGED << args, file_path, buffer_size, glfw, window, nk, win_size,
                    should_close, window_w, window_h, interrupt_flag, file, reader,
                    display, frames, tick_obs, io, obs >>

\* case 'f', main.c:107-109
GetoptFile ==
    /\ pc = "getopt"
    /\ args # << >>
    /\ Head(args).opt = "f"
    /\ opt' = "f"
    /\ file_path' = Head(args).arg
    /\ args' = Tail(args)
    /\ Goto("getopt", << >>)
    /\ UNCHANGED << buffer_size, glfw, window, nk, win_size,
                    should_close, window_w, window_h, interrupt_flag, file, reader,
                    display, frames, tick_obs, io, obs >>

\* case 's', main.c:110-112
GetoptSize ==
    /\ pc = "getopt"
    /\ args # << >>
    /\ Head(args).opt = "s"
    /\ opt' = "s"
    /\ buffer_size' = strtol(Head(args).arg)
    /\ args' = Tail(args)
    /\ Goto("getopt", << >>)
    /\ UNCHANGED << file_path, glfw, window, nk, win_size,
                    should_close, window_w, window_h, interrupt_flag, file, reader,
                    display, frames, tick_obs, io, obs >>

\* GetoptHelp with break in place of return: the usage is printed and parsing goes on
GetoptHelpBreaks ==
    /\ pc = "getopt"
    /\ args # << >>
    /\ Head(args).opt \in {"h", "bad"}
    /\ opt' = IF Head(args).opt = "h" THEN "h" ELSE "?"
    /\ args' = Tail(args)
    /\ Goto("getopt", <<"usage">>)
    /\ UNCHANGED << file_path, buffer_size, glfw, window, nk, win_size,
                    should_close, window_w, window_h, interrupt_flag, file, reader,
                    display, frames, tick_obs, io, obs >>

\* case 'h' and case '?': print_help(); return EXIT_SUCCESS, main.c:113-114
\* ('?' is what getopt_long returns for an unknown option or a missing argument)
GetoptHelp ==
    /\ pc = "getopt"
    /\ args # << >>
    /\ Head(args).opt \in {"h", "bad"}
    /\ opt' = IF Head(args).opt = "h" THEN "h" ELSE "?"
    /\ args' = Tail(args)
    /\ Exit("EXIT_SUCCESS", <<"usage">>)
    /\ UNCHANGED << file_path, buffer_size, glfw, window, nk, win_size,
                    should_close, window_w, window_h, interrupt_flag, file, reader,
                    display, frames, tick_obs, io, obs >>

\* A long option with no exact match makes getopt_long walk option_list to its
\* end, and option_list has no terminating zero entry (main.c:73-78): the walk
\* reads past the array.  The build may find zeroes there (the option is then
\* unknown: '?'), may fault, or may take what it finds for an entry and return
\* its val, which the switch sends to default: abort() (main.c:115-116).
GetoptBadLong ==
    /\ pc = "getopt"
    /\ args # << >>
    /\ Head(args).opt = "badlong"
    /\ args' = Tail(args)
    /\ \E outcome \in {"?", "fault", "other"} :
          CASE outcome = "?"     -> opt' = "?" /\ Exit("EXIT_SUCCESS", <<"usage">>)
            [] outcome = "fault" -> opt' = opt /\ Exit("SIGSEGV", << >>)
            [] outcome = "other" -> opt' = "other" /\ Exit("SIGABRT", << >>)
    /\ UNCHANGED << file_path, buffer_size, glfw, window, nk, win_size,
                    should_close, window_w, window_h, interrupt_flag, file, reader,
                    display, frames, tick_obs, io, obs >>

\* main.c:120-126
CheckFile ==
    /\ pc = "check_file"
    /\ IF file_path = ""
       THEN Exit("EXIT_FAILURE", <<"[FAIL] - No input file provided", "usage">>)
       ELSE Goto("glfw_init", << >>)
    /\ UNCHANGED << args, opt, file_path, buffer_size, glfw, window, nk, win_size,
                    should_close, window_w, window_h, interrupt_flag, file, reader,
                    display, frames, tick_obs, io, obs >>

-----------------------------------------------------------------------------
(* Platform start-up, main.c:128-173 *)

\* glfwInit, main.c:129-134
GlfwInit ==
    /\ pc = "glfw_init"
    /\ \E ok \in BOOLEAN :
          IF ok
          THEN glfw' = "init" /\ Goto("create_window", << >>)
          ELSE glfw' = glfw /\ Exit("EXIT_FAILURE", <<"[FAIL] - GLFW failed to initialize">>)
    /\ UNCHANGED << args, opt, file_path, buffer_size, window, nk, win_size,
                    should_close, window_w, window_h, interrupt_flag, file, reader,
                    display, frames, tick_obs, io, obs >>

\* glfwCreateWindow, main.c:136-153; the platform decides the size it gets
CreateWindow ==
    /\ pc = "create_window"
    /\ \E ok \in BOOLEAN :
          IF ok
          THEN /\ window' = "created"
               /\ win_size' \in WinSizes
               /\ Goto("make_current", << >>)
          ELSE /\ UNCHANGED << window, win_size >>
               /\ Exit("EXIT_FAILURE", <<"[FAIL] - Unable to create the window">>)
    /\ UNCHANGED << args, opt, file_path, buffer_size, glfw, nk,
                    should_close, window_w, window_h, interrupt_flag, file, reader,
                    display, frames, tick_obs, io, obs >>

\* glfwMakeContextCurrent, glfwGetWindowSize, main.c:155-156
MakeCurrent ==
    /\ pc = "make_current"
    /\ window_w' = win_size[1]
    /\ window_h' = win_size[2]
    /\ Goto("gl3w_init", << >>)
    /\ UNCHANGED << args, opt, file_path, buffer_size, glfw, window, nk, win_size,
                    should_close, interrupt_flag, file, reader,
                    display, frames, tick_obs, io, obs >>

\* gl3wInit, glViewport, main.c:159-164
Gl3wInit ==
    /\ pc = "gl3w_init"
    /\ \E ok \in BOOLEAN :
          IF ok
          THEN Goto("nk_init", << >>)
          ELSE Exit("EXIT_FAILURE", <<"[FAIL] - gl3w failed to initialize">>)
    /\ UNCHANGED << args, opt, file_path, buffer_size, glfw, window, nk, win_size,
                    should_close, window_w, window_h, interrupt_flag, file, reader,
                    display, frames, tick_obs, io, obs >>

\* nk_glfw3_init and the font stash, main.c:167-173
NkInit ==
    /\ pc = "nk_init"
    /\ nk' = "init"
    /\ Goto("reader_init", << >>)
    /\ UNCHANGED << args, opt, file_path, buffer_size, glfw, window, win_size,
                    should_close, window_w, window_h, interrupt_flag, file, reader,
                    display, frames, tick_obs, io, obs >>

-----------------------------------------------------------------------------
(* The reader and the display are set up, main.c:175-193 *)

\* ReaderInitSize with the --size option ignored
ReaderInitSizeDefault == DEFAULT_BUFFER_SIZE

\* the size main() asks file_reader_init for, main.c:175
ReaderInitSize == buffer_size

\* reader = file_reader_init(file_path, buffer_size), main.c:175-183
ReaderInit ==
    /\ pc = "reader_init"
    /\ IF file_path = "good"
       THEN /\ reader' = file_reader_init(file, ReaderInitSize)
            /\ Goto("display_init", <<"[INFO] - Initially read bytes into the buffer">>)
       ELSE /\ reader' = reader
            /\ Exit("EXIT_FAILURE", <<"[FAIL] - Failed to read input file in argument">>)
    /\ UNCHANGED << args, opt, file_path, buffer_size, glfw, window, nk, win_size,
                    should_close, window_w, window_h, interrupt_flag, file,
                    display, frames, tick_obs, io, obs >>

\* DisplayInitLength with the two sizes of the reader swapped
DisplayInitLengthFileSize == reader.file_size

\* the buffer length main() gives the display, main.c:186
DisplayInitLength == reader.buffer_size

\* display = raster_display_init(ctx, window_w, window_h, file_size, buffer_size),
\* main.c:185-193; a viewport with a dimension <= 0 is refused
DisplayInit ==
    /\ pc = "display_init"
    /\ IF window_w > 0 /\ window_h > 0
       THEN /\ display' = raster_display_init(window_w, window_h, reader.file_size,
                                              DisplayInitLength)
            /\ Goto("loop_test", <<"[INFO] - Initialized program and display">>)
       ELSE /\ display' = display
            /\ Exit("EXIT_FAILURE", <<"[FAIL] - Could not initialize raster display">>)
    /\ UNCHANGED << args, opt, file_path, buffer_size, glfw, window, nk, win_size,
                    should_close, window_w, window_h, interrupt_flag, file, reader,
                    frames, tick_obs, io, obs >>

-----------------------------------------------------------------------------
(* The frame loop, main.c:195-227 *)

\* LoopTest without the test: a requested close does not end the loop
LoopTestIgnoresClose ==
    /\ pc = "loop_test"
    /\ frames < MaxFrames \/ interrupt_flag # 0
    /\ Goto("poll", << >>)
    /\ frames' = frames + 1
    /\ obs' = NoFrame
    /\ UNCHANGED << args, opt, file_path, buffer_size, glfw, window, nk, win_size,
                    should_close, window_w, window_h, interrupt_flag, file, reader,
                    display, tick_obs, io >>

\* while (!glfwWindowShouldClose(window)), main.c:195.  MaxFrames bounds the
\* frames begun before an interrupt; once the flag is set the loop still runs
\* the frame that ends with the flag being seen
LoopTest ==
    /\ pc = "loop_test"
    /\ IF should_close
       THEN /\ Goto("display_free", << >>)
            /\ frames' = frames
            /\ obs' = obs
       ELSE /\ frames < MaxFrames \/ interrupt_flag # 0
            /\ Goto("poll", << >>)
            /\ frames' = frames + 1
            /\ obs' = NoFrame
    /\ UNCHANGED << args, opt, file_path, buffer_size, glfw, window, nk, win_size,
                    should_close, window_w, window_h, interrupt_flag, file, reader,
                    display, tick_obs, io >>

\* glfwPollEvents, nk_glfw3_new_frame, main.c:197-198: the events of the platform
\* are processed; they may have resized the window or asked to close it
PollEvents ==
    /\ pc = "poll"
    /\ win_size' \in WinSizes
    /\ should_close' \in {should_close, TRUE}
    /\ Goto("set_wh", << >>)
    /\ obs' = Done("poll")
    /\ UNCHANGED << args, opt, file_path, buffer_size, glfw, window, nk,
                    window_w, window_h, interrupt_flag, file, reader,
                    display, frames, tick_obs, io >>

\* display->w = window_w; display->h = window_h, main.c:200-201
SetViewport ==
    /\ pc = "set_wh"
    /\ display' = [display EXCEPT !.w = window_w, !.h = window_h]
    /\ Goto("dialog", << >>)
    /\ obs' = Done("set_wh")
    /\ UNCHANGED << args, opt, file_path, buffer_size, glfw, window, nk, win_size,
                    should_close, window_w, window_h, interrupt_flag, file, reader,
                    frames, tick_obs, io >>

\* DrawDialog going on to the draw: the frame has no tick
DrawDialogSkipsTick ==
    /\ pc = "dialog"
    /\ \E o \in OffsetInputs \cup {display.file_offset} :
          display' = [display EXCEPT !.file_offset = o]
    /\ Goto("draw", << >>)
    /\ obs' = [Done("dialog") EXCEPT !.dialog_o = display'.file_offset]
    /\ UNCHANGED << args, opt, file_path, buffer_size, glfw, window, nk, win_size,
                    should_close, window_w, window_h, interrupt_flag, file, reader,
                    frames, tick_obs, io >>

\* raster_display_draw_dialog(display), main.c:204: the user may have moved the
\* offset control, to any value
DrawDialog ==
    /\ pc = "dialog"
    /\ \E o \in OffsetInputs \cup {display.file_offset} :
          display' = [display EXCEPT !.file_offset = o]
    /\ Goto("tick", << >>)
    /\ obs' = [Done("dialog") EXCEPT !.dialog_o = display'.file_offset]
    /\ UNCHANGED << args, opt, file_path, buffer_size, glfw, window, nk, win_size,
                    should_close, window_w, window_h, interrupt_flag, file, reader,
                    frames, tick_obs, io >>

\* TickOffset one frame late: the offset of the frame before
TickOffsetStale == io.prev_o

\* the offset main() gives file_reader_tick, main.c:207
TickOffset == display.file_offset

\* AfterTick leaving the frame loop when the tick reported a failure
AfterTickBreaks(failed) == IF failed THEN "display_free" ELSE "draw"

\* where main() goes on after the tick, whatever it reported: main.c:207-209
AfterTick(failed) == "draw"

\* file_reader_tick(reader, display->file_offset), main.c:207
Tick ==
    /\ pc = "tick"
    /\ LET o == TickOffset
           target == TickTarget(reader, o)
           changed == IF target # TickTarget(reader, io.prev_o) THEN 1 ELSE 0
       IN  IF ~TickNeedsRead(reader, o)
           THEN /\ reader' = reader
                /\ tick_obs' = [done |-> TRUE, o |-> o, pre |-> reader,
                                read |-> FALSE, failed |-> FALSE]
                /\ io' = [io EXCEPT !.changed = @ + changed, !.prev_o = o]
                /\ Goto(AfterTick(FALSE), << >>)
           ELSE \E ok \in BOOLEAN :
                /\ reader' = IF ok THEN TickRead(reader, file, o)
                                   ELSE TickFailed(reader, file, o)
                /\ tick_obs' = [done |-> TRUE, o |-> o, pre |-> reader,
                                read |-> TRUE, failed |-> ~ok]
                /\ io' = [io EXCEPT !.reads = @ + 1,
                                    !.ok_reads = @ + (IF ok THEN 1 ELSE 0),
                                    !.changed = @ + changed, !.prev_o = o]
                /\ Goto(AfterTick(~ok), << >>)
    /\ obs' = [Done("tick") EXCEPT !.tick_o = TickOffset, !.tick_buf = reader'.buffer]
    /\ UNCHANGED << args, opt, file_path, buffer_size, glfw, window, nk, win_size,
                    should_close, window_w, window_h, interrupt_flag, file,
                    display, frames >>

\* raster_display_draw(display, reader->buffer), main.c:209
Draw ==
    /\ pc = "draw"
    /\ \E junk \in JunkBytes :
          display' = raster_display_draw(display, reader.buffer, junk)
    /\ Goto("get_size", << >>)
    /\ obs' = [Done("draw") EXCEPT !.draw_buf = reader.buffer]
    /\ UNCHANGED << args, opt, file_path, buffer_size, glfw, window, nk, win_size,
                    should_close, window_w, window_h, interrupt_flag, file, reader,
                    frames, tick_obs, io >>

\* glfwGetWindowSize(window, &window_w, &window_h), main.c:212
GetWindowSize ==
    /\ pc = "get_size"
    /\ window_w' = win_size[1]
    /\ window_h' = win_size[2]
    /\ Goto("render", << >>)
    /\ obs' = Done("get_size")
    /\ UNCHANGED << args, opt, file_path, buffer_size, glfw, window, nk, win_size,
                    should_close, interrupt_flag, file, reader,
                    display, frames, tick_obs, io >>

\* Render with the flag looked at first: an interrupted frame is cut short
RenderPollsFlag ==
    /\ pc = "render"
    /\ IF interrupt_flag # 0
       THEN Goto("display_free", <<"[INFO] - CTRL-C detected...">>) /\ obs' = obs
       ELSE Goto("check_interrupt", << >>) /\ obs' = Done("render")
    /\ UNCHANGED << args, opt, file_path, buffer_size, glfw, window, nk, win_size,
                    should_close, window_w, window_h, interrupt_flag, file, reader,
                    display, frames, tick_obs, io >>

\* raster_display_render, nk_glfw3_render, glfwSwapBuffers, main.c:214-220
Render ==
    /\ pc = "render"
    /\ Goto("check_interrupt", << >>)
    /\ obs' = Done("render")
    /\ UNCHANGED << args, opt, file_path, buffer_size, glfw, window, nk, win_size,
                    should_close, window_w, window_h, interrupt_flag, file, reader,
                    display, frames, tick_obs, io >>

\* if (interrupt_flag) break, main.c:222-226.  The flag is a plain
\* sig_atomic_t (main.c:44); the calls of the loop body are opaque to the
\* compiler and the handler's address was given away (main.c:71), so the test
\* reads the object the handler wrote.
CheckInterrupt ==
    /\ pc = "check_interrupt"
    /\ IF interrupt_flag # 0
       THEN Goto("display_free", <<"[INFO] - CTRL-C detected...">>)
       ELSE Goto("loop_test", << >>)
    /\ obs' = [Done("check_interrupt") EXCEPT !.polls = @ + 1,
                                              !.seen = (interrupt_flag # 0)]
    /\ UNCHANGED << args, opt, file_path, buffer_size, glfw, window, nk, win_size,
                    should_close, window_w, window_h, interrupt_flag, file, reader,
                    display, frames, tick_obs, io >>

\* interrupt_handler, main.c:46-50: SIGINT may arrive at any point of the run
Interrupt ==
    /\ pc # "exited"
    /\ interrupt_flag = 0
    /\ interrupt_flag' = 1
    /\ UNCHANGED << pc, args, opt, file_path, buffer_size, glfw, window, nk, win_size,
                    should_close, window_w, window_h, file, reader,
                    display, output, exit_status, frames, tick_obs, io, obs >>

-----------------------------------------------------------------------------
(* Shutdown, main.c:229-238 *)

\* raster_display_free(display), main.c:229
DisplayFree ==
    /\ pc = "display_free"
    /\ display' = raster_display_free(display)
    /\ Goto("nk_shutdown", << >>)
    /\ UNCHANGED << args, opt, file_path, buffer_size, glfw, window, nk, win_size,
                    should_close, window_w, window_h, interrupt_flag, file, reader,
                    frames, tick_obs, io, obs >>

\* nk_glfw3_shutdown, main.c:231
NkShutdown ==
    /\ pc = "nk_shutdown"
    /\ nk' = "shutdown"
    /\ Goto("glfw_terminate", << >>)
    /\ UNCHANGED << args, opt, file_path, buffer_size, glfw, window, win_size,
                    should_close, window_w, window_h, interrupt_flag, file, reader,
                    display, frames, tick_obs, io, obs >>

\* glfwTerminate, main.c:232: destroys the windows that are left
GlfwTerminate ==
    /\ pc = "glfw_terminate"
    /\ glfw' = "terminated"
    /\ window' = "destroyed"
    /\ Goto("reader_free", << >>)
    /\ UNCHANGED << args, opt, file_path, buffer_size, nk, win_size,
                    should_close, window_w, window_h, interrupt_flag, file, reader,
                    display, frames, tick_obs, io, obs >>

\* ReaderFree without the call: main() returns with the reader still open
ReaderFreeSkipped ==
    /\ pc = "reader_free"
    /\ Exit("EXIT_SUCCESS", <<"[INFO] - Closed the program successfully">>)
    /\ UNCHANGED << args, opt, file_path, buffer_size, glfw, window, nk, win_size,
                    should_close, window_w, window_h, interrupt_flag, file, reader,
                    display, frames, tick_obs, io, obs >>

\* file_reader_free(reader) and the return, main.c:234-238
ReaderFree ==
    /\ pc = "reader_free"
    /\ reader' = file_reader_free(reader)
    /\ Exit("EXIT_SUCCESS", <<"[INFO] - Closed the program successfully">>)
    /\ obs' = [obs EXCEPT !.frees = @ + 1]
    /\ UNCHANGED << args, opt, file_path, buffer_size, glfw, window, nk, win_size,
                    should_close, window_w, window_h, interrupt_flag, file,
                    display, frames, tick_obs, io >>

-----------------------------------------------------------------------------
(* The file window *)

\* the reader as file_reader_init and file_reader_tick leave it
ReaderLive == reader.alloc = "live"

\* the state right after the file_reader_tick call of a frame
AfterTickCall == pc = "draw" /\ tick_obs.done

\* C1: with 1 <= B <= S, after a tick(o) whose read did not fail, for the
\* offset o the dialog left in this frame (negative and past the end of the
\* file included), window_offset is o clamped to 0 .. S-B and valid_length is
\* B, whatever ticks came before.
C1_TickClampsOffset ==
    (/\ AfterTickCall
     /\ ~tick_obs.failed
     /\ 1 <= reader.buffer_size
     /\ reader.buffer_size <= reader.file_size)
    => /\ reader.window_offset =
            Max(0, Min(display.file_offset, reader.file_size - reader.buffer_size))
       /\ reader.valid_length = reader.buffer_size

\* a second frame's tick brings the window back from a positive offset to 0
\* for a negative request
C1_Witness ==
    /\ AfterTickCall
    /\ frames >= 2
    /\ tick_obs.read /\ ~tick_obs.failed
    /\ display.file_offset = -1
    /\ tick_obs.pre.window_offset > 0
    /\ reader.window_offset = 0
    /\ reader.buffer_size >= 1

\* the scenario of the design document: 10 bytes, B = 4, tick(0), tick(100)
ScenarioFile == [size |-> 10, seed |-> 3]

ScenarioOpened == file_reader_init(ScenarioFile, 4)

ScenarioMoved == TickRead(ScenarioOpened, ScenarioFile, 100)

\* C2: after open and after any ticks, buffer[i] is the byte of the file at
\* window_offset + i for every i below valid_length; in the scenario tick(0)
\* holds bytes 0..3 and tick(100) holds bytes 6..9 at window_offset 6.
C2_BufferIsFileWindow ==
    /\ ReaderLive =>
          /\ reader.valid_length <= Len(reader.buffer)
          /\ \A i \in 1 .. reader.valid_length :
                reader.buffer[i] = FileByte(file, reader.window_offset + i - 1)
    /\ ~TickNeedsRead(ScenarioOpened, 0)
    /\ ScenarioOpened.buffer = [i \in 1 .. 4 |-> FileByte(ScenarioFile, i - 1)]
    /\ ScenarioMoved.window_offset = 6
    /\ ScenarioMoved.buffer = [i \in 1 .. 4 |-> FileByte(ScenarioFile, 5 + i)]

\* a tick has read a window of two bytes or more at a positive offset
C2_Witness ==
    /\ AfterTickCall
    /\ tick_obs.read /\ ~tick_obs.failed
    /\ reader.window_offset > 0
    /\ reader.valid_length >= 2

\* C3: after open, after a tick with any offset and after a failed tick,
\* 0 <= window_offset, valid_length <= buffer_capacity and
\* window_offset + valid_length <= file_size.
C3_WindowInsideFile ==
    ReaderLive =>
        /\ 0 <= reader.window_offset
        /\ reader.valid_length <= reader.buffer_size
        /\ reader.window_offset + reader.valid_length <= reader.file_size

\* a tick for a negative offset has failed, after one that moved the window
C3_Witness ==
    /\ AfterTickCall
    /\ tick_obs.failed
    /\ tick_obs.o = -1
    /\ reader.window_offset > 0
    /\ reader.valid_length = reader.buffer_size

\* C4: a positive request gives the capacity min(request, S); when the request
\* exceeds S, after tick(o) for any o window_offset is 0 and valid_length is S.
C4_RequestAboveFileSize ==
    /\ (ReaderLive /\ buffer_size > 0) =>
          reader.buffer_size = Min(buffer_size, file.size)
    /\ (AfterTickCall /\ buffer_size > file.size) =>
          /\ reader.window_offset = 0
          /\ reader.valid_length = file.size
          /\ ~tick_obs.read

\* a tick for a positive offset on a file shorter than the --size request
C4_Witness ==
    /\ AfterTickCall
    /\ opt = "-1" /\ buffer_size > file.size /\ buffer_size # DEFAULT_BUFFER_SIZE
    /\ file.size >= 2
    /\ display.file_offset = 1
    /\ reader.valid_length = file.size

-----------------------------------------------------------------------------
(* Reads, failures and the drawn grid *)

\* the parts of C5 that do not count reads: a tick whose clamped target is the
\* window's offset does no I/O and changes nothing; the first tick(0) after
\* open does not read
TickNoOp ==
    /\ (AfterTickCall /\ TickTarget(tick_obs.pre, tick_obs.o) = tick_obs.pre.window_offset)
          => (~tick_obs.read /\ reader = tick_obs.pre)
    /\ (AfterTickCall /\ frames = 1 /\ tick_obs.o = 0) => ~tick_obs.read

DrawnGrid(d, buf) == raster_display_draw(d, buf, 0).pixel_grid

C7_DrawFillsGrid ==
    pc = "get_size" =>
        LET G == display.w * display.h
        IN  /\ Len(display.pixel_grid) = G
            /\ \A i \in 1 .. G :
                  display.pixel_grid[i] =
                      IF i <= reader.valid_length
                      THEN Policy(reader.buffer[i])
                      ELSE background_color

\* a later frame is drawn after its tick moved the window; the buffer is
\* shorter than the grid
C7_Witness ==
    /\ pc = "get_size"
    /\ frames >= 2
    /\ tick_obs.read /\ ~tick_obs.failed
    /\ reader.valid_length >= 1
    /\ reader.valid_length < display.w * display.h
    /\ display.pixel_grid[1] # background_color

-----------------------------------------------------------------------------
(* Exits *)

\* C8: when --file names a path that cannot be opened, a diagnostic is printed,
\* the exit status is 1 and no window was created in the run.
C8_NoWindowWhenFileCannotBeOpened ==
    (pc = "exited" /\ opt = "-1" /\ file_path \in {"missing", "unreadable"})
    => /\ exit_status = "EXIT_FAILURE"
       /\ output # << >>
       /\ window = "NULL"

\* C9: when getopt_long returns 'h' (-h or --help, with --file before it or
\* not), usage is printed and the process exits with status 0; the platform is
\* not initialised, no window is created and the file is not opened.
C9_HelpExitsBeforeSetup ==
    opt = "h" =>
        /\ pc = "exited"
        /\ exit_status = "EXIT_SUCCESS"
        /\ output = <<"usage">>
        /\ glfw = "uninit"
        /\ window = "NULL"
        /\ nk = "none"
        /\ reader.alloc = "NULL"
        /\ display.alloc = "NULL"

\* --help after --file with a path that could be opened
C9_Witness ==
    /\ opt = "h"
    /\ file_path = "good"
    /\ pc = "exited"
    /\ exit_status = "EXIT_SUCCESS"

\* C10: a return from main() has status 0 only when help was asked for or the
\* frame loop ran and shut down; every other return has status 1.
C10_ExitStatus ==
    (pc = "exited" /\ exit_status \in {"EXIT_SUCCESS", "EXIT_FAILURE"})
    => (exit_status = "EXIT_SUCCESS" <=> (opt = "h" \/ reader.alloc = "freed"))

-----------------------------------------------------------------------------
(* The default buffer size *)

\* an argument strtol finds no number in
NotANumber(s) == \A i \in 1 .. Len(s) : ~IsDigit(s[i])

\* C12: a --size argument that is not a number parses to 0, and a request that
\* is zero or negative is opened as the default request of 512, so that the
\* capacity after open is min(512, S); a positive request r gives min(r, S).
C12_DefaultRequest ==
    /\ [](ReaderLive =>
            /\ (buffer_size <= 0) =>
                   reader.buffer_size = Min(DEFAULT_BUFFER_SIZE, file.size)
            /\ (buffer_size > 0) =>
                   reader.buffer_size = Min(buffer_size, file.size))
    /\ [][(/\ pc = "getopt" /\ args # << >>
           /\ Head(args).opt = "s" /\ NotANumber(Head(args).arg))
          => buffer_size' = 0]_vars

\* --size x on a file longer than the default: the capacity is 512, not S
C12_Witness ==
    /\ ReaderLive
    /\ opt = "-1"
    /\ buffer_size = 0
    /\ file.size > DEFAULT_BUFFER_SIZE
    /\ reader.buffer_size = DEFAULT_BUFFER_SIZE
    /\ Len(reader.buffer) = DEFAULT_BUFFER_SIZE

-----------------------------------------------------------------------------
(* Shutdown and the order of a frame *)

\* the frame loop has been left: main() is at main.c:229-238 or has returned
\* from there (raster_display_free is called nowhere else)
ShutdownPositions == {"display_free", "nk_shutdown", "glfw_terminate", "reader_free"}

LoopLeft == pc \in ShutdownPositions \/ (pc = "exited" /\ display.alloc = "freed")

\* C11: once the frame loop has been left (close request or interrupt flag),
\* file_reader_free is called exactly once before main() returns: not before
\* the shutdown reaches it, once when the process has exited; tick and draw
\* work on a reader that is open, and nothing runs after the call.
C11_ReaderClosedOnce ==
    /\ obs.frees <= 1
    /\ (pc \in ShutdownPositions) => (obs.frees = 0 /\ ReaderLive)
    /\ (LoopLeft /\ pc = "exited") => (obs.frees = 1 /\ reader.alloc = "freed")
    /\ (pc \in {"tick", "draw"}) => (obs.frees = 0 /\ ReaderLive)
    /\ (obs.frees > 0) => (pc = "exited")

C11_Witness ==
    /\ LoopLeft
    /\ pc = "exited"
    /\ obs.frees = 1
    /\ tick_obs.done
    /\ obs.draw_buf # << >>

-----------------------------------------------------------------------------
(* The order of a frame *)

\* the statements of the loop body in the order of main.c:197-226, and where
\* main() is when the first k of them are done
FrameSteps ==
    <<"poll", "set_wh", "dialog", "tick", "draw", "get_size", "render", "check_interrupt">>

FramePositions ==
    <<"poll", "set_wh", "dialog", "tick", "draw", "get_size", "render", "check_interrupt",
      "loop_test">>

\* the four steps of the data flow, among the steps done in the frame
IsFlowStep(step) == step \in {"dialog", "tick", "draw", "render"}

FlowSteps == SelectSeq(obs.steps, IsFlowStep)

IsPrefix(s, t) == Len(s) <= Len(t) /\ s = SubSeq(t, 1, Len(s))

\* C14: in every frame the steps are dialog, tick, draw, render in this order,
\* each once; the tick gets the offset the dialog of the same frame left, the
\* draw reads the buffer as that tick left it, and nothing touches the buffer
\* between the two.
C14_FrameOrder ==
    /\ IsPrefix(FlowSteps, <<"dialog", "tick", "draw", "render">>)
    /\ (pc = "tick") => FlowSteps = <<"dialog">>
    /\ (pc = "draw") =>
          /\ FlowSteps = <<"dialog", "tick">>
          /\ obs.tick_o = obs.dialog_o
          /\ reader.buffer = obs.tick_buf
    /\ (pc \in {"get_size", "render"}) =>
          /\ FlowSteps = <<"dialog", "tick", "draw">>
          /\ obs.draw_buf = obs.tick_buf
    /\ (pc = "check_interrupt" \/ (frames > 0 /\ (pc = "loop_test" \/ LoopLeft))) =>
          /\ FlowSteps = <<"dialog", "tick", "draw", "render">>
          /\ obs.tick_o = obs.dialog_o
          /\ obs.draw_buf = obs.tick_buf

\* the end of a second frame whose tick moved the window: the draw has read
\* the new bytes
C14_Witness ==
    /\ pc = "check_interrupt"
    /\ frames = 2
    /\ obs.dialog_o = 1
    /\ tick_obs.read /\ ~tick_obs.failed
    /\ obs.draw_buf = reader.buffer
    /\ obs.draw_buf # tick_obs.pre.buffer

\* C15: the interrupt flag, set at any point, is looked at once per frame, at
\* the end of it: a frame that was begun does all its steps in order whatever
\* the flag is, the loop is left only between two frames, and no frame begins
\* after the flag was seen set.
C15_FlagPolledAtFrameEnd ==
    /\ \A k \in 1 .. Len(FrameSteps) :
          (pc = FramePositions[k]) =>
             (obs.steps = SubSeq(FrameSteps, 1, k - 1) /\ obs.polls = 0 /\ ~obs.seen)
    /\ (frames > 0 /\ (pc = "loop_test" \/ LoopLeft)) =>
          (obs.steps = FrameSteps /\ obs.polls = 1)
    /\ (pc = "loop_test") => ~obs.seen
    /\ obs.seen => (LoopLeft /\ interrupt_flag # 0)
    /\ (LoopLeft /\ ~should_close) => obs.seen

\* the flag was seen at the end of a complete frame and the loop was left
C15_Witness ==
    /\ pc = "display_free"
    /\ obs.seen
    /\ ~should_close
    /\ obs.steps = FrameSteps
    /\ obs.draw_buf # << >>

\* the clean exit of main.c:229-238: display freed, platform shut down, reader
\* closed, status 0
CleanExit ==
    /\ pc = "exited"
    /\ exit_status = "EXIT_SUCCESS"
    /\ display.alloc = "freed"
    /\ nk = "shutdown"
    /\ glfw = "terminated"
    /\ reader.alloc = "freed"

\* C16: when every step of main() terminates, a run whose initialisation
\* succeeded and in which the interrupt flag was set or the close of the
\* window was requested leaves the frame loop, frees the display, shuts the
\* platform down, closes the reader and exits with status 0; the flag, once
\* set, is never cleared.
C16_ShutdownRequestLeadsToCleanExit ==
    /\ ((display.alloc = "live" /\ (interrupt_flag # 0 \/ should_close)) ~> CleanExit)
    /\ [][interrupt_flag # 0 => interrupt_flag' # 0]_vars

\* the flag is set in the middle of a frame of a run that was initialised
C16_Witness ==
    /\ display.alloc = "live"
    /\ pc = "draw"
    /\ interrupt_flag # 0
    /\ ~should_close

-----------------------------------------------------------------------------
(* The viewport *)

\* the statements of a frame that come after display->w and display->h were
\* set (main.c:200-201) and up to the render (main.c:214-220)
ViewportInEffect == display.alloc = "live" /\ pc \in {"dialog", "tick", "draw", "get_size", "render"}

\* C13 as stated: once the display was initialised with valid dimensions, the
\* dimensions in effect in a frame are both > 0, whatever the window's size
\* has become.
C13_ViewportStaysValid ==
    ViewportInEffect => (display.w > 0 /\ display.h > 0)

\* C17 as stated: the dimensions a frame draws and renders with are the
\* window's dimensions as of that frame.
C17_ViewportIsCurrent ==
    (display.alloc = "live" /\ pc \in {"draw", "get_size", "render"})
    => (display.w = win_size[1] /\ display.h = win_size[2])

-----------------------------------------------------------------------------
(* Resources at exit *)

\* C18 as stated: when main() has returned, the reader it opened has been
\* released, and GLFW and the window it acquired have been torn down, on the
\* failure paths as on the clean shutdown.
C18_ResourcesReleasedAtExit ==
    (pc = "exited")
    => (reader.alloc # "live" /\ glfw # "init" /\ window # "created")

-----------------------------------------------------------------------------

Next ==
    \/ GetoptEnd \/ GetoptFile \/ GetoptSize \/ GetoptHelp \/ GetoptBadLong
    \/ CheckFile
    \/ GlfwInit \/ CreateWindow \/ MakeCurrent \/ Gl3wInit \/ NkInit
    \/ ReaderInit \/ DisplayInit
    \/ LoopTest \/ PollEvents \/ SetViewport \/ DrawDialog \/ Tick \/ Draw
    \/ GetWindowSize \/ Render \/ CheckInterrupt \/ Interrupt
    \/ DisplayFree \/ NkShutdown \/ GlfwTerminate \/ ReaderFree

Spec == Init /\ [][Next]_vars

\* the runs on one file, the longest of the small ones
FairFiles == {[size |-> MaxFileSize, seed |-> 3]}

FairInit ==
    /\ pc = "getopt"
    /\ args \in ArgVectors
    /\ opt = "none"
    /\ file_path = ""
    /\ buffer_size = DEFAULT_BUFFER_SIZE
    /\ glfw = "uninit"
    /\ window = "NULL"
    /\ nk = "none"
    /\ win_size = <<0, 0>>
    /\ should_close = FALSE
    /\ window_w = 0
    /\ window_h = 0
    /\ interrupt_flag = 0
    /\ file \in FairFiles
    /\ reader = NullReader
    /\ display = NullDisplay
    /\ output = << >>
    /\ exit_status = "running"
    /\ frames = 0
    /\ tick_obs = NoTick
    /\ io = [reads |-> 0, ok_reads |-> 0, changed |-> 0, prev_o |-> 0]
    /\ obs = NoFrame

\* the steps of main(): every action but the arrival of the signal
MainNext ==
    \/ GetoptEnd \/ GetoptFile \/ GetoptSize \/ GetoptHelp \/ GetoptBadLong
    \/ CheckFile
    \/ GlfwInit \/ CreateWindow \/ MakeCurrent \/ Gl3wInit \/ NkInit
    \/ ReaderInit \/ DisplayInit
    \/ LoopTest \/ PollEvents \/ SetViewport \/ DrawDialog \/ Tick \/ Draw
    \/ GetWindowSize \/ Render \/ CheckInterrupt
    \/ DisplayFree \/ NkShutdown \/ GlfwTerminate \/ ReaderFree

\* every step of main() terminates: main() is not stopped for ever while it has
\* a step to take; nothing is assumed about the signal
FairSpec == FairInit /\ [][Next]_vars /\ WF_vars(MainNext)

-----------------------------------------------------------------------------
(* Start-up alone, main.c:69-183, with a file longer than the default buffer *)

LongFileSize == DEFAULT_BUFFER_SIZE + 2

StartupFiles == Files \cup {[size |-> LongFileSize, seed |-> s] : s \in FileSeeds}

StartupInit ==
    /\ pc = "getopt"
    /\ args \in ArgVectors
    /\ opt = "none"
    /\ file_path = ""
    /\ buffer_size = DEFAULT_BUFFER_SIZE
    /\ glfw = "uninit"
    /\ window = "NULL"
    /\ nk = "none"
    /\ win_size = <<0, 0>>
    /\ should_close = FALSE
    /\ window_w = 0
    /\ window_h = 0
    /\ interrupt_flag = 0
    /\ file \in StartupFiles
    /\ reader = NullReader
    /\ display = NullDisplay
    /\ output = << >>
    /\ exit_status = "running"
    /\ frames = 0
    /\ tick_obs = NoTick
    /\ io = [reads |-> 0, ok_reads |-> 0, changed |-> 0, prev_o |-> 0]
    /\ obs = NoFrame

StartupNext ==
    \/ GetoptEnd \/ GetoptFile \/ GetoptSize \/ GetoptHelp \/ GetoptBadLong
    \/ CheckFile
    \/ GlfwInit \/ CreateWindow \/ MakeCurrent \/ Gl3wInit \/ NkInit
    \/ ReaderInit

StartupSpec == StartupInit /\ [][StartupNext]_vars

====
